---------------------------- MODULE Spec2Model ----------------------------
(***************************************************************************)
(* BitVision: a Vision Transformer whose linear layers quantize their      *)
(* activations to 8 bits and their weights to ternary values.              *)
(*                                                                         *)
(* Numbers are exact rationals [n, d] (d > 0, lowest terms).  A tensor is  *)
(* a record [shape, data]: the sizes of its dimensions and its elements in *)
(* row-major order, as in torch's contiguous layout.                       *)
(***************************************************************************)
EXTENDS Integers, Sequences, FiniteSets, TLC

VARIABLES
    obj,    \* the module the call is made on (its fields and parameters)
    x,      \* the caller's argument tensor
    y,      \* what the call returned: a value, or the error it raised
    op,     \* the call that was made
    cfg,    \* the configuration the training script read
    trace,  \* the tensors the last VisionTransformer.forward computed on the way
    loop    \* train(): where it stands and its local variables

vars == <<obj, x, y, op, cfg, trace, loop>>

\* Python runs a statement to its end before the next one begins.  Where a
\* definition below reads  CHOOSE r \in {F(v) : v \in {e}} : TRUE  it is
\* F(e) with the value v of e computed first: the statement  v = e  followed
\* by the statement  r = F(v).

(* ------------------------------ rationals ------------------------------ *)

RECURSIVE GCD(_, _)
GCD(a, b) == IF b = 0 THEN a ELSE GCD(b, a % b)

AbsInt(a) == IF a < 0 THEN -a ELSE a

Rat(n, d) ==
    LET s == IF d < 0 THEN -1 ELSE 1
        g == GCD(AbsInt(n), AbsInt(d))
    IN  [n |-> (s * n) \div g, d |-> (s * d) \div g]

Int2Rat(k) == [n |-> k, d |-> 1]
Zero == Int2Rat(0)
One == Int2Rat(1)

\* the values of floating point that are no number: d = 0
NaN == [n |-> 0, d |-> 0]
Inf(sign) == [n |-> sign, d |-> 0]
IsNaN(a) == a.d = 0 /\ a.n = 0
Sign(k) == IF k < 0 THEN -1 ELSE IF k > 0 THEN 1 ELSE 0

RAdd(a, b) ==
    LET g == GCD(a.d, b.d)
    IN  Rat(a.n * (b.d \div g) + b.n * (a.d \div g), (a.d \div g) * b.d)

RNeg(a) == [n |-> -a.n, d |-> a.d]
RSub(a, b) == RAdd(a, RNeg(b))

\* 0 * inf and anything with NaN is NaN, as in IEEE 754
RMul(a, b) ==
    IF a.d = 0 \/ b.d = 0
    THEN IF IsNaN(a) \/ IsNaN(b) \/ a.n = 0 \/ b.n = 0 THEN NaN
         ELSE Inf(Sign(a.n) * Sign(b.n))
    ELSE LET g1 == GCD(AbsInt(a.n), b.d)
             g2 == GCD(AbsInt(b.n), a.d)
         IN  [n |-> (a.n \div g1) * (b.n \div g2), d |-> (a.d \div g2) * (b.d \div g1)]

\* 1 / 0 is inf, 1 / inf is 0
RInv(a) ==
    IF IsNaN(a) THEN NaN
    ELSE IF a.d = 0 THEN Zero
    ELSE IF a.n = 0 THEN Inf(1)
    ELSE IF a.n < 0 THEN [n |-> -a.d, d |-> -a.n] ELSE [n |-> a.d, d |-> a.n]

RDiv(a, b) == RMul(a, RInv(b))

\* a < b, by continued fractions: no product that could leave the integers
RECURSIVE RLess(_, _)
RLess(a, b) ==
    LET fa == a.n \div a.d
        fb == b.n \div b.d
        ra == a.n - fa * a.d
        rb == b.n - fb * b.d
    IN  IF fa # fb THEN fa < fb
        ELSE IF rb = 0 THEN FALSE
        ELSE IF ra = 0 THEN TRUE
        ELSE RLess([n |-> b.d, d |-> rb], [n |-> a.d, d |-> ra])

RAbs(a) == [n |-> AbsInt(a.n), d |-> a.d]
RMax(a, b) == IF RLess(a, b) THEN b ELSE a
RMin(a, b) == IF RLess(a, b) THEN a ELSE b
\* torch.clamp keeps NaN
RClamp(a, lo, hi) ==
    IF IsNaN(a) THEN NaN
    ELSE IF a.d = 0 THEN (IF a.n < 0 THEN lo ELSE hi)
    ELSE RMin(RMax(a, lo), hi)

\* s[lo] + ... + s[hi], by halves: the sum of exact rationals is the same
\* in every order
RECURSIVE SumRange(_, _, _)
SumRange(s, lo, hi) ==
    IF lo > hi THEN Zero
    ELSE IF lo = hi THEN s[lo]
    ELSE CHOOSE total \in
             {RAdd(a, b) : a \in {SumRange(s, lo, (lo + hi) \div 2)},
                           b \in {SumRange(s, (lo + hi) \div 2 + 1, hi)}} : TRUE

SumSeq(s, k) == SumRange(s, 1, k)

\* the greatest of s[lo], ..., s[hi], by halves
RECURSIVE MaxRange(_, _, _)
MaxRange(s, lo, hi) ==
    IF lo = hi THEN s[lo]
    ELSE CHOOSE m \in
             {RMax(a, b) : a \in {MaxRange(s, lo, (lo + hi) \div 2)},
                           b \in {MaxRange(s, (lo + hi) \div 2 + 1, hi)}} : TRUE

MaxSeq(s, k) == MaxRange(s, 1, k)

\* the greatest of 0 and |s[1]|, ..., |s[k]|
MaxAbsSeq(s, k) == IF k = 0 THEN Zero ELSE MaxSeq([i \in 1..k |-> RAbs(s[i])], k)

(* ------------------- floating point, on a fixed grid ------------------- *)

\* torch.round: to the nearest integer, a tie to the even one
TorchRound(a) ==
    LET f == a.n \div a.d
        rem == a.n - f * a.d
    IN  IF 2 * rem < a.d THEN f
        ELSE IF 2 * rem > a.d THEN f + 1
        ELSE IF f % 2 = 0 THEN f ELSE f + 1

\* the integer part of a >= 0
Floor(a) == a.n \div a.d

\* The square root, and the results of the library's normalization, are
\* kept to FixDen steps per unit: the rounding of a float, made explicit.
FixDen == 1000

Fix(a) ==
    CHOOSE r \in {Rat(TorchRound(steps), FixDen) : steps \in {RMul(a, Int2Rat(FixDen))}} : TRUE

\* the integer part of the square root of n, 46340 at most (its square is
\* the last below 2^31): first the multiple of 216 below it, then the root
ISqrt(n) ==
    LET base == 216 * (CHOOSE c \in 0..214 :
                          /\ (216 * c) * (216 * c) <= n
                          /\ c = 214 \/ n < (216 * (c + 1)) * (216 * (c + 1)))
        top == IF base + 215 > 46340 THEN 46340 ELSE base + 215
    IN  CHOOSE r \in base..top : r * r <= n /\ (r = 46340 \/ n < (r + 1) * (r + 1))

\* sqrt(a), to the grid
Sqrt(a) == Rat(ISqrt(Floor(RMul(a, Int2Rat(FixDen * FixDen)))), FixDen)

(* ------------------------------- tensors ------------------------------- *)

RECURSIVE Pow(_, _)
Pow(b, e) == IF e = 0 THEN 1 ELSE b * Pow(b, e - 1)

RECURSIVE Prod(_, _)
Prod(s, k) == IF k = 0 THEN 1 ELSE Prod(s, k - 1) * s[k]

Numel(shape) == Prod(shape, Len(shape))

\* a function on 1..n as a sequence proper, its elements evaluated once
AsSeq(f) == SubSeq(f, 1, Len(f))

Tensor(shape, data) == [shape |-> shape, data |-> SubSeq(data, 1, Len(data))]

LastDim(t) == IF Len(t.shape) = 0 THEN 1 ELSE t.shape[Len(t.shape)]

\* the r-th slice of t along its last dimension
RowOf(t, r) == SubSeq(t.data, (r - 1) * LastDim(t) + 1, r * LastDim(t))

NumRows(t) == Len(t.data) \div LastDim(t)

\* the tensor of a shape whose slices along the last dimension are rows
FromRows(shape, rows) ==
    LET n == shape[Len(shape)]
    IN  Tensor(shape, [i \in 1..Numel(shape) |->
                          rows[((i - 1) \div n) + 1][((i - 1) % n) + 1]])

\* every element of a float tensor is on the grid
FixTensor(t) == Tensor(t.shape, [i \in 1..Len(t.data) |-> Fix(t.data[i])])

(* ----------------------------- bitLinear.py ---------------------------- *)

\* RoundSTE.forward
RoundSTE(a) == IF a.d = 0 THEN a ELSE Int2Rat(TorchRound(a))

\* torch.finfo(torch.float32).eps = 2^-23
FloatEps == [n |-> 1, d |-> 8388608]

\* the 1e-5 of weight_quant's clamp
WeightEps == [n |-> 1, d |-> 100000]

\* ActDivisor with the bug of leaving the clamp to eps out
ActDivisor_NoEps(row) == CHOOSE r \in {m : m \in {MaxAbsSeq(row, Len(row))}} : TRUE

\* x.abs().max(dim=-1, keepdim=True).values.clamp(min=eps), for one row
ActDivisor(row) ==
    CHOOSE r \in {RMax(m, FloatEps) : m \in {MaxAbsSeq(row, Len(row))}} : TRUE

\* scale = 127.0 / ..., for one row
ActScale(row) ==
    CHOOSE scale \in {RDiv(Int2Rat(127), divisor) : divisor \in {ActDivisor(row)}} : TRUE

\* x_scaled = x * scale; y = RoundSTE.apply(x_scaled).clamp(lo, hi) / scale,
\* for one element
Quantized(v, scale, lo, hi) == RDiv(RClamp(RoundSTE(RMul(v, scale)), lo, hi), scale)

\* activation_quant from its second line on: scale[r] is the scale of row r
activation_quant_scaled(t, scale) ==
    LET n == LastDim(t)
    IN  Tensor(t.shape, [i \in 1..Len(t.data) |->
                   Quantized(t.data[i], scale[((i - 1) \div n) + 1],
                             Int2Rat(-128), Int2Rat(127))])

\* activation_quant with the bug of one scale for the whole tensor
\* (max over every element, not over the last dimension)
activation_quant_PerTensor(t) ==
    CHOOSE y_out \in
        {activation_quant_scaled(t, scale) :
            scale \in {AsSeq([r \in 1..NumRows(t) |-> ActScale(t.data)])}} : TRUE

activation_quant(t) ==
    CHOOSE y_out \in
        {activation_quant_scaled(t, scale) :
            scale \in {AsSeq([r \in 1..NumRows(t) |-> ActScale(RowOf(t, r))])}} : TRUE

Mean(s) ==
    CHOOSE m \in {RDiv(total, Int2Rat(Len(s))) : total \in {SumSeq(s, Len(s))}} : TRUE

AbsSeq(s) == [i \in 1..Len(s) |-> RAbs(s[i])]

\* w.abs().mean().clamp(min=1e-5)
WeightDivisor(w) ==
    CHOOSE r \in {RMax(m, WeightEps) : m \in {Mean(AbsSeq(w.data))}} : TRUE

\* scale = 1.0 / ...
WeightScale(w) ==
    CHOOSE scale \in {RDiv(One, divisor) : divisor \in {WeightDivisor(w)}} : TRUE

\* weight_quant_scaled with the bug of leaving the clamp to [-1, 1] out
weight_quant_scaled_NoClamp(w, scale) ==
    Tensor(w.shape, [i \in 1..Len(w.data) |-> RDiv(RoundSTE(RMul(w.data[i], scale)), scale)])

\* weight_quant from its second line on
weight_quant_scaled(w, scale) ==
    Tensor(w.shape, [i \in 1..Len(w.data) |->
                        Quantized(w.data[i], scale, Int2Rat(-1), Int2Rat(1))])

weight_quant(w) ==
    CHOOSE u \in {weight_quant_scaled(w, scale) : scale \in {WeightScale(w)}} : TRUE

NoResult == [status |-> "none"]
Ok(v) == [status |-> "ok", value |-> v]
Err(e) == [status |-> "error", error |-> e]

\* nn.LayerNorm over the last dimension, for one row:
\* (x - mean) / sqrt(var + eps), then the affine weight and bias if any

\* x - mean
Deviations(row, mean) ==
    AsSeq([i \in 1..Len(row) |-> Fix(RSub(row[i], mean))])

\* dev / std
Standardized(dev, std) ==
    AsSeq([i \in 1..Len(dev) |-> Fix(RDiv(dev[i], std))])

\* std = sqrt(var + eps): var the biased variance, the mean of the squares
\* of the deviations, and eps = 1e-5
LayerNormDev(dev) ==
    CHOOSE y_out \in
        {Standardized(dev, std) :
            std \in {Sqrt(RAdd(var, [n |-> 1, d |-> 100000])) :
                var \in {Mean(sq) :
                    sq \in {AsSeq([i \in 1..Len(dev) |-> RMul(dev[i], dev[i])])}}}} : TRUE

LayerNormRow(row) ==
    CHOOSE y_out \in
        {LayerNormDev(dev) :
            dev \in {Deviations(row, mean) : mean \in {Fix(Mean(row))}}} : TRUE

\* self.rms_norm = nn.LayerNorm(in_features, elementwise_affine=False):
\* every row of the last dimension is normalized on its own
rms_norm(t) ==
    CHOOSE y_out \in
        {FromRows(t.shape, rows) :
            rows \in {AsSeq([r \in 1..NumRows(t) |-> LayerNormRow(RowOf(t, r))])}} : TRUE

TAdd(a, b) == Tensor(a.shape, [i \in 1..Len(a.data) |-> RAdd(a.data[i], b.data[i])])
TSub(a, b) == Tensor(a.shape, [i \in 1..Len(a.data) |-> RSub(a.data[i], b.data[i])])

\* v + (q - v).detach(): the value of q, the gradient of v
StraightThrough(v, q) == CHOOSE y_out \in {TAdd(v, diff) : diff \in {TSub(q, v)}} : TRUE

\* sum over j = 1..k of a[ia + j] * b[ib + j]
Dot(a, ia, b, ib, k) == SumSeq([j \in 1..k |-> RMul(a[ia + j], b[ib + j])], k)

\* F.linear(input, weight, bias): input [..., in], weight [out, in], bias [out]
F_linear(input, weight, bias) ==
    LET nin == weight.shape[2]
        nout == weight.shape[1]
        lead == SubSeq(input.shape, 1, Len(input.shape) - 1)
    IN  Tensor(lead \o <<nout>>,
               [i \in 1..(NumRows(input) * nout) |->
                   LET r == (i - 1) \div nout
                       o == (i - 1) % nout
                   IN  RAdd(Dot(input.data, r * nin, weight.data, o * nin, nin),
                            bias.data[o + 1])])

\* BitLinear.forward after the normalization: x_quant, w_quant, F.linear
BitLinear_linear(self, x_norm) ==
    CHOOSE y_out \in
        {F_linear(x_quant, w_quant, self.bias) :
            x_quant \in {StraightThrough(x_norm, q) : q \in {activation_quant(x_norm)}},
            w_quant \in {StraightThrough(self.weight, q) : q \in {weight_quant(self.weight)}}} :
        TRUE

\* BitLinear_forward with the bug of storing the quantized weights in the
\* layer: self.weight.data = weight_quant(self.weight)
BitLinear_forward_InPlace(self, t) ==
    IF Len(t.shape) = 0 \/ LastDim(t) # self.in_features
    THEN [result |-> Err("shape"), self |-> self, arg |-> t]
    ELSE CHOOSE r \in
             {[result |-> Ok(BitLinear_linear(self, x_norm)),
               self |-> [self EXCEPT !.weight = weight_quant(self.weight)], arg |-> t] :
                 x_norm \in {rms_norm(t)}} : TRUE

\* BitLinear.forward: the value returned (or the error raised), and the
\* module and the argument as the call leaves them
BitLinear_forward(self, t) ==
    IF Len(t.shape) = 0 \/ LastDim(t) # self.in_features
    THEN [result |-> Err("shape"), self |-> self, arg |-> t]
    ELSE CHOOSE r \in
             {[result |-> Ok(BitLinear_linear(self, x_norm)), self |-> self, arg |-> t] :
                 x_norm \in {rms_norm(t)}} : TRUE

(* ---------------------------- embeddings.py ---------------------------- *)

\* einops.rearrange(x, 'b c (h h1) (w w1) -> b (h w) (h1 w1 c)', h1=p, w1=p)
Rearrange(t, p) ==
    LET B == t.shape[1]
        C == t.shape[2]
        H == t.shape[3]
        W == t.shape[4]
        hn == H \div p
        wn == W \div p
        plen == p * p * C
    IN  Tensor(<<B, hn * wn, plen>>,
               [i \in 1..(B * hn * wn * plen) |->
                   LET b == (i - 1) \div (hn * wn * plen)
                       pos == ((i - 1) \div plen) % (hn * wn)
                       e == (i - 1) % plen
                       h == pos \div wn
                       w == pos % wn
                       h1 == e \div (p * C)
                       w1 == (e \div C) % p
                       c == e % C
                   IN  t.data[((b * C + c) * H + h * p + h1) * W + w * p + w1 + 1]])

\* CatClassToken with the bug of leaving the class token out
CatClassToken_NoToken(class_token, proj) == proj

\* torch.cat([class_token.expand(b, -1, -1), proj], dim=1)
CatClassToken(class_token, proj) ==
    LET B == proj.shape[1]
        n == proj.shape[2]
        L == proj.shape[3]
    IN  Tensor(<<B, n + 1, L>>,
               [i \in 1..(B * (n + 1) * L) |->
                   LET b == (i - 1) \div ((n + 1) * L)
                       pos == ((i - 1) \div L) % (n + 1)
                       e == (i - 1) % L
                   IN  IF pos = 0 THEN class_token.data[e + 1]
                       ELSE proj.data[(b * n + pos - 1) * L + e + 1]])

\* t += pos_embedding.expand(b, n + 1, -1), on the tensor cat allocated
AddPosEmbedding(t, pos_embedding) ==
    LET L == t.shape[3]
    IN  Tensor(t.shape, [i \in 1..Len(t.data) |->
                            RAdd(t.data[i], pos_embedding.data[((i - 1) % L) + 1])])

\* InputEmbedding.forward after the projection proj of the patches: the
\* class token, the position embedding
InputEmbedding_embed(self, t, proj) ==
    LET after == [self EXCEPT !.bitlinearProjection = proj.self]
    IN  IF proj.result.status # "ok"
        THEN [result |-> proj.result, self |-> after, arg |-> t]
        ELSE CHOOSE r \in
                 {[result |-> Ok(AddPosEmbedding(cat, self.pos_embedding)),
                   self |-> after, arg |-> t] :
                     cat \in {CatClassToken(self.class_token, proj.result.value)}} : TRUE

\* InputEmbedding_forward with the bug of a partition that drops the rows
\* and columns left over, where rearrange raises
InputEmbedding_forward_Truncating(self, t) ==
    CHOOSE r \in
        {InputEmbedding_embed(self, t, proj) :
            proj \in {BitLinear_forward(self.bitlinearProjection, patches) :
                         patches \in {Rearrange(t, self.patch_size)}}} : TRUE

\* InputEmbedding.forward
InputEmbedding_forward(self, t) ==
    IF Len(t.shape) # 4 \/ t.shape[3] % self.patch_size # 0
                        \/ t.shape[4] % self.patch_size # 0
    THEN [result |-> Err("shape"), self |-> self, arg |-> t]
    ELSE CHOOSE r \in
             {InputEmbedding_embed(self, t, proj) :
                 proj \in {BitLinear_forward(self.bitlinearProjection, patches) :
                              patches \in {Rearrange(t, self.patch_size)}}} : TRUE

(* ------------------------------ encoder.py ----------------------------- *)

\* the affine part of nn.LayerNorm: normed * weight + bias
Affine(norm, normed) ==
    LET n == LastDim(normed)
    IN  Tensor(normed.shape, [i \in 1..Len(normed.data) |->
                   RAdd(RMul(normed.data[i], norm.weight.data[((i - 1) % n) + 1]),
                        norm.bias.data[((i - 1) % n) + 1])])

\* nn.LayerNorm(latent_size): the normalized row times weight, plus bias
LayerNorm_forward(norm, t) ==
    CHOOSE y_out \in {Affine(norm, normed) : normed \in {rms_norm(t)}} : TRUE

\* the value at a >= 0 of a function tabulated at 0, 1, 2, ... in
\* thousandths: between two entries the line through them, and beyond the
\* table the value beyond
Interpolate(table, a, beyond) ==
    LET k == Floor(a)
    IN  IF k + 2 > Len(table) THEN beyond
        ELSE CHOOSE y_out \in
                 {Fix(RDiv(value, Int2Rat(FixDen))) :
                     value \in {RAdd(Int2Rat(table[k + 1]), rise) :
                         rise \in {RMul(Int2Rat(table[k + 2] - table[k + 1]),
                                        RSub(a, Int2Rat(k)))}}} : TRUE

\* exp(-a) for a >= 0 on the grid: exp(-k) for k = 0, 1, ..., in
\* thousandths, and 0 from the length of the table on
ExpNeg(a) == Interpolate(<< 1000, 368, 135, 50, 18, 7, 2, 1, 0 >>, a, Zero)

\* exp(s - max)
Exps(s, m) == AsSeq([i \in 1..Len(s) |-> ExpNeg(RSub(m, s[i]))])

\* e / sum(e)
Shares(e) ==
    CHOOSE y_out \in
        {AsSeq([i \in 1..Len(e) |-> Fix(RDiv(e[i], total))]) :
            total \in {SumSeq(e, Len(e))}} : TRUE

\* softmax over a sequence of scores: exp(s - max) / sum
Softmax(s) ==
    CHOOSE y_out \in {Shares(e) : e \in {Exps(s, m) : m \in {MaxSeq(s, Len(s))}}} : TRUE

\* Phi(a) for a >= 0 on the grid: the normal distribution function at
\* 0, 1/2, 1, ..., in thousandths
Phi(a) ==
    Interpolate(<< 500, 691, 841, 933, 977, 994, 999, 1000, 1000 >>,
                RMul(a, Int2Rat(2)), One)

\* x * Phi(x) for one element; Phi(-x) = 1 - Phi(x)
GELUValue(v) ==
    CHOOSE y_out \in
        {Fix(RMul(v, IF v.n < 0 THEN RSub(One, p) ELSE p)) : p \in {Phi(RAbs(v))}} : TRUE

\* nn.GELU(): x * Phi(x), elementwise
GELU(t) ==
    Tensor(t.shape, [i \in 1..Len(t.data) |->
                        CHOOSE y_out \in {GELUValue(v) : v \in {Fix(t.data[i])}} : TRUE])

\* nn.Dropout(p) and the dropout of the attention weights: the identity in
\* evaluation mode; in training mode an element is zeroed where the random
\* mask says so and scaled by 1 / (1 - p) where not; the mask of element k
\* is bit k of the random draw rng of the forward call
DropoutValue(p, training, v, rng, k) ==
    IF ~training \/ p = Zero THEN v
    ELSE IF p = One \/ (rng \div Pow(2, k % 8)) % 2 = 1 THEN Zero
    ELSE RDiv(v, RSub(One, p))

Dropout(p, training, t, rng) ==
    Tensor(t.shape, [i \in 1..Len(t.data) |-> DropoutValue(p, training, t.data[i], rng, i)])

\* nn.MultiheadAttention.forward(query, key, value) with the three the same
\* 3-D tensor t.  With batch_first False t is read as [L, N, E], sequence
\* first: position l of column n attends to the positions 1..L of column n.
\* With batch_first True it is read as [N, L, E].
\* The sizes it reads from t, and the scale sqrt(head_dim) of the scores:
AttentionDims(mha, t) ==
    [E |-> mha.embed_dim, H |-> mha.num_heads, hd |-> mha.embed_dim \div mha.num_heads,
     L |-> IF mha.batch_first THEN t.shape[2] ELSE t.shape[1],
     N |-> IF mha.batch_first THEN t.shape[1] ELSE t.shape[2],
     batch_first |-> mha.batch_first,
     scale |-> Sqrt(Int2Rat(mha.embed_dim \div mha.num_heads))]

\* where the query, key (part 1) or value (part 2) of position l of column n
\* begins in qkv, the input projection of t, row by row; l and n from 0
AttentionOffset(d, l, n, part) ==
    (IF d.batch_first THEN n * d.L + l ELSE l * d.N + n) * 3 * d.E + part * d.E

\* q . k / sqrt(head_dim) of position l of column n with each position of
\* the column, in head h
AttentionScores(d, qkv, l, n, h) ==
    AsSeq([l2 \in 1..d.L |->
        Fix(RDiv(Dot(qkv, AttentionOffset(d, l, n, 0) + h * d.hd,
                     qkv, AttentionOffset(d, l2 - 1, n, 1) + h * d.hd, d.hd),
                 d.scale))])

\* the dropout of the attention weights w of position l in head h
AttentionDropout(p, training, w, rng, k) ==
    AsSeq([l2 \in 1..Len(w) |-> DropoutValue(p, training, w[l2], rng, k + l2)])

\* softmax and dropout, for each position, column and head
AttentionWeights(mha, d, training, qkv, rng) ==
    AsSeq([r \in 1..(d.L * d.N * d.H) |->
        LET l == (r - 1) \div (d.N * d.H)
            n == ((r - 1) \div d.H) % d.N
            h == (r - 1) % d.H
        IN  CHOOSE y_out \in
                {AttentionDropout(mha.dropout, training, w, rng, l * d.L + h) :
                    w \in {Softmax(s) : s \in {AttentionScores(d, qkv, l, n, h)}}} : TRUE])

\* the weighted sum of the values, element e of position l of column n
AttentionValue(d, qkv, weights, l, n, e) ==
    Fix(SumSeq([l2 \in 1..d.L |->
                   RMul(weights[(l * d.N + n) * d.H + (e \div d.hd) + 1][l2],
                        qkv[AttentionOffset(d, l2 - 1, n, 2) + e + 1])], d.L))

\* the heads side by side, in the layout of t
AttentionHeads(d, t, qkv, weights) ==
    Tensor(t.shape,
        [i \in 1..Len(t.data) |->
            LET row == (i - 1) \div d.E
                l == IF d.batch_first THEN row % d.L ELSE row \div d.N
                n == IF d.batch_first THEN row \div d.L ELSE row % d.N
            IN  AttentionValue(d, qkv, weights, l, n, (i - 1) % d.E)])

\* from the input projection qkv to the output projection
Attention(mha, d, training, t, qkv, rng) ==
    CHOOSE y_out \in
        {FixTensor(projected) :
            projected \in {F_linear(heads, mha.out_proj_weight, mha.out_proj_bias) :
                heads \in {AttentionHeads(d, t, qkv, weights) :
                    weights \in {AttentionWeights(mha, d, training, qkv, rng)}}}} : TRUE

MultiheadAttention_forward(mha, training, t, rng) ==
    CHOOSE y_out \in
        {Attention(mha, d, training, t, qkv.data, rng) :
            d \in {AttentionDims(mha, t)},
            qkv \in {FixTensor(projected) :
                projected \in {F_linear(t, mha.in_proj_weight, mha.in_proj_bias)}}} : TRUE

\* self.enc_MLP from the second BitLinear's result h2 on: Dropout
enc_MLP_out(mlp, training, h1, h2, rng) ==
    LET after == [mlp EXCEPT ![1] = h1.self, ![4] = h2.self]
    IN  IF h2.result.status # "ok"
        THEN [result |-> h2.result, self |-> after]
        ELSE [result |-> Ok(Dropout(mlp[5].p, training, h2.result.value, rng \div 16)),
              self |-> after]

\* self.enc_MLP from the first BitLinear's result h1 on: GELU, Dropout,
\* BitLinear, Dropout
enc_MLP_hidden(mlp, training, h1, rng) ==
    IF h1.result.status # "ok" THEN [result |-> h1.result, self |-> mlp]
    ELSE CHOOSE r \in
             {enc_MLP_out(mlp, training, h1, h2, rng) :
                 h2 \in {BitLinear_forward(mlp[4], dropped) :
                     dropped \in {Dropout(mlp[3].p, training, act, rng \div 4) :
                         act \in {GELU(h1.result.value)}}}} : TRUE

\* self.enc_MLP: BitLinear, GELU, Dropout, BitLinear, Dropout
enc_MLP_forward(mlp, training, t, rng) ==
    CHOOSE r \in
        {enc_MLP_hidden(mlp, training, h1, rng) : h1 \in {BitLinear_forward(mlp[1], t)}} : TRUE

\* EncoderBlock.forward, its last line: final_output
EncoderBlock_output(self, input_tensor, residual_attention, mlp) ==
    LET after == [self EXCEPT !.enc_MLP = mlp.self]
    IN  IF mlp.result.status # "ok"
        THEN [result |-> mlp.result, self |-> after, arg |-> input_tensor]
        ELSE [result |-> Ok(TAdd(residual_attention, mlp.result.value)),
              self |-> after, arg |-> input_tensor]

\* EncoderBlock.forward from residual_attention on
EncoderBlock_residual(self, input_tensor, residual_attention, rng) ==
    CHOOSE r \in
        {EncoderBlock_output(self, input_tensor, residual_attention, mlp) :
            mlp \in {enc_MLP_forward(self.enc_MLP, self.training, normed, rng) :
                normed \in {LayerNorm_forward(self.norm, residual_attention)}}} : TRUE

\* EncoderBlock.forward
EncoderBlock_forward(self, input_tensor, rng) ==
    IF Len(input_tensor.shape) # 3 \/ input_tensor.shape[3] # self.latent_size
    THEN [result |-> Err("shape"), self |-> self, arg |-> input_tensor]
    ELSE CHOOSE r \in
             {EncoderBlock_residual(self, input_tensor, residual_attention, rng) :
                 residual_attention \in {TAdd(input_tensor, attended) :
                     attended \in {MultiheadAttention_forward(self.multihead, self.training,
                                                               normed, rng) :
                         normed \in {LayerNorm_forward(self.norm, input_tensor)}}}} : TRUE

(* ------------------------- the model, by tokens ------------------------ *)
(* A VisionTransformer is built with patch_size 16 and 3 channels: a patch  *)
(* is 768 numbers.  Its forward pass is followed here token by token: a    *)
(* tensor [B, T, E] is [shape, tok], tok[b][t] the term that says how the   *)
(* E numbers of position t of batch element b were computed, and an image  *)
(* batch [B, C, H, W] is [shape, ids], ids[b] the image at batch index b.   *)
(* Equal terms are equal vectors.                                           *)

Tokens(shape, tok) ==
    [shape |-> shape, tok |-> AsSeq([b \in 1..Len(tok) |-> AsSeq(tok[b])])]

\* BitLinear.forward on tokens: the shape rule of rms_norm and F.linear
BitLinear_tokens(self, t) ==
    IF Len(t.shape) = 0 \/ t.shape[Len(t.shape)] # self.in_features
    THEN [result |-> Err("shape"), self |-> self, arg |-> t]
    ELSE [result |-> Ok(Tokens(SubSeq(t.shape, 1, Len(t.shape) - 1) \o <<self.out_features>>,
                               t.tok)),
          self |-> self, arg |-> t]

\* InputEmbedding.forward on tokens
InputEmbedding_tokens(self, img) ==
    LET p == self.patch_size
    IN  IF Len(img.shape) # 4 \/ img.shape[3] % p # 0 \/ img.shape[4] % p # 0
        THEN [result |-> Err("shape"), self |-> self, arg |-> img]
        ELSE LET B == img.shape[1]
                 n == (img.shape[3] \div p) * (img.shape[4] \div p)
                 patches == Tokens(<<B, n, p * p * img.shape[2]>>,
                                   [b \in 1..B |-> [k \in 1..n |-> <<"patch", img.ids[b], k>>]])
                 proj == BitLinear_tokens(self.bitlinearProjection, patches)
                 after == [self EXCEPT !.bitlinearProjection = proj.self]
             IN  IF proj.result.status # "ok"
                 THEN [result |-> proj.result, self |-> after, arg |-> img]
                 ELSE [result |->
                          Ok(Tokens(<<B, n + 1, proj.result.value.shape[3]>>,
                                    [b \in 1..B |-> [k \in 1..(n + 1) |->
                                        IF k = 1 THEN <<"class_token">>
                                        ELSE proj.result.value.tok[b][k - 1]]])),
                       self |-> after, arg |-> img]

\* nn.MultiheadAttention(query, key, value) on a 3-D input: with batch_first
\* False the input is read as [L, N, E], sequence first, and position
\* (l, n) attends to the positions (1..L, n); with batch_first True it is
\* read as [N, L, E] and position (n, l) attends to (n, 1..L)
MultiheadContext(mha, t, i, j) ==
    IF mha.batch_first
    THEN AsSeq([k \in 1..t.shape[2] |-> t.tok[i][k]])
    ELSE AsSeq([k \in 1..t.shape[1] |-> t.tok[k][j]])

\* EncoderBlock.forward on tokens; in training mode the output depends on
\* the random draw of the dropout masks as well
EncoderBlock_tokens(self, t, rng) ==
    IF Len(t.shape) # 3 \/ t.shape[3] # self.latent_size
    THEN [result |-> Err("shape"), self |-> self, arg |-> t]
    ELSE [result |->
             Ok(Tokens(t.shape,
                 [i \in 1..t.shape[1] |-> [j \in 1..t.shape[2] |->
                     IF self.training /\ self.dropout # Zero
                     THEN <<"block", t.tok[i][j],
                            MultiheadContext(self.multihead, t, i, j), <<"dropout", rng>> >>
                     ELSE <<"block", t.tok[i][j],
                            MultiheadContext(self.multihead, t, i, j)>>]])),
          self |-> self, arg |-> t]

(* ------------------------- visionTransformer.py ------------------------ *)

\* the defaults of InputEmbedding.__init__ and EncoderBlock.__init__
DefaultPatchSize == 16
DefaultChannels == 3
DefaultNumHeads == 8
DefaultDropout == [n |-> 1, d |-> 2]

\* the fields of a BitLinear, its parameters left out
BitLinear_fields(in_features, out_features) ==
    [kind |-> "BitLinear", in_features |-> in_features, out_features |-> out_features]

\* InputEmbedding.__init__, parameters left out
InputEmbedding_fields(patch_size, n_channels, latent_size) ==
    [kind |-> "InputEmbedding", patch_size |-> patch_size, n_channels |-> n_channels,
     latent_size |-> latent_size,
     input_size |-> patch_size * patch_size * n_channels,
     bitlinearProjection |->
         BitLinear_fields(patch_size * patch_size * n_channels, latent_size)]

\* EncoderBlock.__init__, parameters left out
EncoderBlock_fields(latent_size, num_heads, dropout) ==
    [kind |-> "EncoderBlock", latent_size |-> latent_size, num_heads |-> num_heads,
     dropout |-> dropout, training |-> TRUE,
     multihead |-> [embed_dim |-> latent_size, num_heads |-> num_heads,
                    dropout |-> dropout, batch_first |-> FALSE],
     enc_MLP |-> << BitLinear_fields(latent_size, latent_size * 4),
                    [kind |-> "GELU"],
                    [kind |-> "Dropout", p |-> dropout],
                    BitLinear_fields(latent_size * 4, latent_size),
                    [kind |-> "Dropout", p |-> dropout] >>]

\* nn.MultiheadAttention asserts that num_heads divides embed_dim
EncoderBlock_accepts(latent_size, num_heads) == latent_size % num_heads = 0

\* VisionTransformer.__init__.  The values of the parameters are numbered:
\* 0 names the values at construction, and every optimizer step makes the
\* values of the next number.
VisionTransformer_init(num_encoders, latent_size, num_classes, dropout) ==
    [kind |-> "VisionTransformer", training |-> TRUE, parameters |-> 0,
     num_encoders |-> num_encoders, latent_size |-> latent_size,
     num_classes |-> num_classes, dropout |-> dropout,
     input_embedding |->
         InputEmbedding_fields(DefaultPatchSize, DefaultChannels, latent_size),
     encoder_stack |->
         AsSeq([k \in 1..num_encoders |->
                   EncoderBlock_fields(latent_size, DefaultNumHeads, DefaultDropout)]),
     mlp_head |-> << [kind |-> "LayerNorm", normalized_shape |-> latent_size],
                     BitLinear_fields(latent_size, latent_size),
                     [kind |-> "GELU"],
                     BitLinear_fields(latent_size, num_classes) >>]

VisionTransformer_accepts(num_encoders, latent_size) ==
    num_encoders = 0 \/ EncoderBlock_accepts(latent_size, DefaultNumHeads)

\* for encoder_layer in self.encoder_stack: the outputs of the layers 1..k,
\* or the first error
RECURSIVE EncoderStack_tokens(_, _, _, _)
EncoderStack_tokens(stack, t, k, rng) ==
    IF k = 0 THEN [status |-> "ok", outputs |-> <<>>, stack |-> stack]
    ELSE LET before == EncoderStack_tokens(stack, t, k - 1, rng)
         IN  IF before.status # "ok" THEN before
             ELSE LET input == IF k = 1 THEN t ELSE before.outputs[k - 1]
                      r == EncoderBlock_tokens(before.stack[k], input, rng)
                      stack2 == [before.stack EXCEPT ![k] = r.self]
                  IN  IF r.result.status # "ok"
                      THEN [status |-> "error", outputs |-> before.outputs, stack |-> stack2]
                      ELSE [status |-> "ok",
                            outputs |-> Append(before.outputs, r.result.value),
                            stack |-> stack2]

\* SelectClassToken with the bug of indexing the batch: encoder_output[0]
SelectClassToken_FirstBatch(t) ==
    Tokens(<<t.shape[2], t.shape[3]>>, [k \in 1..t.shape[2] |-> t.tok[1][k]])

\* SelectClassToken with the bug of pooling the last position:
\* encoder_output[:, -1]
SelectClassToken_Last(t) ==
    Tokens(<<t.shape[1], t.shape[3]>>, [b \in 1..t.shape[1] |-> t.tok[b][t.shape[2]]])

\* encoder_output[:, 0]
SelectClassToken(t) ==
    Tokens(<<t.shape[1], t.shape[3]>>, [b \in 1..t.shape[1] |-> t.tok[b][1]])

\* self.mlp_head: LayerNorm, BitLinear, GELU, BitLinear, on [B, E]
MlpHead_tokens(head, t) ==
    IF t.shape[Len(t.shape)] # head[1].normalized_shape THEN Err("shape")
    ELSE LET h1 == BitLinear_tokens(head[2], t)
         IN  IF h1.result.status # "ok" THEN h1.result
             ELSE LET h2 == BitLinear_tokens(head[4], h1.result.value)
                  IN  IF h2.result.status # "ok" THEN h2.result
                      ELSE Ok(Tokens(h2.result.value.shape,
                                     [b \in 1..t.shape[1] |-> <<"head", t.tok[b]>>]))

NoConfig == [kind |-> "none"]
NoModule == [kind |-> "none"]

\* nn.Module.train(mode), and eval() = train(False): the flag of the module
\* and of each of its children
Module_train(self, mode) ==
    IF self.kind = "VisionTransformer"
    THEN [self EXCEPT !.training = mode,
                      !.encoder_stack =
                          AsSeq([k \in 1..Len(self.encoder_stack) |->
                                    [self.encoder_stack[k] EXCEPT !.training = mode]])]
    ELSE [self EXCEPT !.training = mode]

NoTrace == [embedded |-> NoResult, encoder_outputs |-> <<>>, head_input |-> NoResult]

\* VisionTransformer.forward, its last line: the head on the class token
VisionTransformer_classify(self, img, tr, cls_token_embedding) ==
    [result |-> MlpHead_tokens(self.mlp_head, cls_token_embedding),
     self |-> self, arg |-> img,
     trace |-> [tr EXCEPT !.head_input = Ok(cls_token_embedding)]]

\* VisionTransformer.forward from the result s of the encoder stack on
VisionTransformer_encoded(self, img, e, s) ==
    LET self2 == [self EXCEPT !.encoder_stack = s.stack]
        tr == [NoTrace EXCEPT !.embedded = e.result, !.encoder_outputs = s.outputs]
    IN  IF s.status # "ok"
        THEN [result |-> Err("shape"), self |-> self2, arg |-> img, trace |-> tr]
        ELSE VisionTransformer_classify(self2, img, tr,
                 SelectClassToken(IF Len(s.outputs) = 0 THEN e.result.value
                                  ELSE s.outputs[Len(s.outputs)]))

\* VisionTransformer.forward from the result e of the embedding on
VisionTransformer_embedded(self, img, e, rng) ==
    LET self1 == [self EXCEPT !.input_embedding = e.self]
    IN  IF e.result.status # "ok"
        THEN [result |-> e.result, self |-> self1, arg |-> img,
              trace |-> [NoTrace EXCEPT !.embedded = e.result]]
        ELSE VisionTransformer_encoded(self1, img, e,
                 EncoderStack_tokens(self1.encoder_stack, e.result.value,
                                     Len(self1.encoder_stack), rng))

\* VisionTransformer.forward: what it returns, the module and the argument
\* as it leaves them, and the tensors it computed on the way
VisionTransformer_forward(self, img, rng) ==
    VisionTransformer_embedded(self, img,
        InputEmbedding_tokens(self.input_embedding, img), rng)

(* ------------------------------- inputs -------------------------------- *)

\* values a tensor element is drawn from: zero, ordinary magnitudes of both
\* signs, a tie for rounding, and magnitudes below the two clamps
Palette ==
    << Zero, One, [n |-> -2, d |-> 3], [n |-> 1, d |-> 2], Int2Rat(-3),
       [n |-> 1, d |-> 16777216], [n |-> -3, d |-> 524288] >>

MaxRows == 2
MaxLen == 2
MaxSeed == 2400

\* the k-th element of the tensor numbered seed: the k-th digit of seed
\* in base Len(Palette)
SeedTensor(shape, seed) ==
    Tensor(shape, [k \in 1..Numel(shape) |->
                      Palette[((seed \div Pow(Len(Palette), k - 1)) % Len(Palette)) + 1]])

QuantInputs ==
    { SeedTensor(<<r, n>>, seed) : r \in 1..MaxRows, n \in 1..MaxLen, seed \in 0..MaxSeed }


\* values of pixels and of parameters
PixelPalette == << Zero, One, Int2Rat(-1), Int2Rat(2), [n |-> 1, d |-> 2] >>
ParamPalette == << One, Int2Rat(-1), Zero, [n |-> 1, d |-> 2], Int2Rat(-2), [n |-> 1, d |-> 4] >>

\* the k-th element of the tensor numbered seed over a palette
MixTensor(palette, shape, seed) ==
    Tensor(shape, [k \in 1..Numel(shape) |->
                      palette[((seed * (2 * k + 1) + k * k) % Len(palette)) + 1]])

MaxBatch == 2
MaxSide == 2
MaxImageSeed == 3
MaxParamSeed == 1
ChannelCounts == {1, 2}
LatentSizes == {1, 2}

\* BitLinear.__init__: weight [out_features, in_features], bias [out_features]
BitLinear_init(in_features, out_features, seed) ==
    [kind |-> "BitLinear", in_features |-> in_features, out_features |-> out_features,
     weight |-> MixTensor(ParamPalette, <<out_features, in_features>>, seed),
     bias |-> MixTensor(ParamPalette, <<out_features>>, seed + 1)]

\* InputEmbedding.__init__
InputEmbedding_init(patch_size, n_channels, latent_size, seed) ==
    [kind |-> "InputEmbedding", patch_size |-> patch_size, n_channels |-> n_channels,
     latent_size |-> latent_size,
     input_size |-> patch_size * patch_size * n_channels,
     bitlinearProjection |->
         BitLinear_init(patch_size * patch_size * n_channels, latent_size, seed),
     class_token |-> MixTensor(ParamPalette, <<1, 1, latent_size>>, seed + 2),
     pos_embedding |-> MixTensor(ParamPalette, <<1, 1, latent_size>>, seed + 3)]

Images ==
    { MixTensor(PixelPalette, <<b, c, h, w>>, seed) :
        b \in 1..MaxBatch, c \in ChannelCounts, h \in 1..MaxSide, w \in 1..MaxSide,
        seed \in 0..MaxImageSeed }

InputEmbeddings ==
    { InputEmbedding_init(p, c, l, seed) :
        p \in {1, 2}, c \in ChannelCounts, l \in LatentSizes, seed \in 0..MaxParamSeed }

\* EncoderBlock.__init__
EncoderBlock_init(latent_size, num_heads, dropout, seed) ==
    [kind |-> "EncoderBlock", latent_size |-> latent_size, num_heads |-> num_heads,
     dropout |-> dropout, training |-> TRUE,
     norm |-> [kind |-> "LayerNorm", normalized_shape |-> latent_size,
               weight |-> MixTensor(ParamPalette, <<latent_size>>, seed + 4),
               bias |-> MixTensor(ParamPalette, <<latent_size>>, seed + 5)],
     multihead |->
         [embed_dim |-> latent_size, num_heads |-> num_heads,
          dropout |-> dropout, batch_first |-> FALSE,
          in_proj_weight |-> MixTensor(ParamPalette, <<3 * latent_size, latent_size>>, seed),
          in_proj_bias |-> MixTensor(ParamPalette, <<3 * latent_size>>, seed + 1),
          out_proj_weight |-> MixTensor(ParamPalette, <<latent_size, latent_size>>, seed + 2),
          out_proj_bias |-> MixTensor(ParamPalette, <<latent_size>>, seed + 3)],
     enc_MLP |-> << BitLinear_init(latent_size, latent_size * 4, seed),
                    [kind |-> "GELU"],
                    [kind |-> "Dropout", p |-> dropout],
                    BitLinear_init(latent_size * 4, latent_size, seed + 1),
                    [kind |-> "Dropout", p |-> dropout] >>]

EncoderBlocks ==
    { EncoderBlock_init(c[1], c[2], DefaultDropout, c[3]) :
        c \in { d \in LatentSizes \X {1, 2} \X (0..MaxParamSeed) :
                  EncoderBlock_accepts(d[1], d[2]) } }

MaxTokens == 2

\* the tensor [B, T, E] whose slice at batch index b is slices[b], a [T, E]
Stack(slices) ==
    LET n == Len(slices[1].data)
    IN  Tensor(<<Len(slices)>> \o slices[1].shape,
               [i \in 1..(Len(slices) * n) |->
                   slices[((i - 1) \div n) + 1].data[((i - 1) % n) + 1]])

\* slice b of a tensor [B, ...]
BatchSlice(t, b) ==
    LET n == Len(t.data) \div t.shape[1]
    IN  SubSeq(t.data, (b - 1) * n + 1, b * n)

\* inputs [B, T, E], each batch element one of two sequences
EncoderInputs ==
    UNION { { Stack(AsSeq(s)) :
                s \in [1..b -> { MixTensor(PixelPalette, <<t, e>>, seed) :
                                   seed \in {0, 1} }] } :
            b \in 1..MaxBatch, t \in 1..MaxTokens, e \in LatentSizes }

BitLinears ==
    { BitLinear_init(i, o, seed) :
        i \in LatentSizes, o \in LatentSizes, seed \in 0..MaxParamSeed }

BitLinearInputs ==
    { MixTensor(PixelPalette, <<r, n>>, seed) :
        r \in 1..MaxRows, n \in LatentSizes, seed \in 0..MaxImageSeed }

\* the random draws of the dropout masks of one forward call
MaxRng == 1

NoLoop == [pc |-> "none"]

(* ------------------------- the patch embedding ------------------------- *)

InitEmbed ==
    /\ obj \in InputEmbeddings /\ x \in Images /\ y = NoResult /\ op = "none"
    /\ cfg = NoConfig /\ trace = NoTrace /\ loop = NoLoop

CallInputEmbedding ==
    /\ obj.kind = "InputEmbedding"
    /\ \E r \in {InputEmbedding_forward(obj, x)} :
          y' = r.result /\ obj' = r.self /\ x' = r.arg
    /\ op' = "InputEmbedding.forward"
    /\ UNCHANGED <<cfg, trace, loop>>

SpecEmbed == InitEmbed /\ [][CallInputEmbedding]_vars

(* --------------------- BitLinear and EncoderBlock ---------------------- *)

InitBitLinear ==
    /\ obj \in BitLinears /\ x \in BitLinearInputs /\ y = NoResult /\ op = "none"
    /\ cfg = NoConfig /\ trace = NoTrace /\ loop = NoLoop

CallBitLinear ==
    /\ obj.kind = "BitLinear"
    /\ \E r \in {BitLinear_forward(obj, x)} :
          y' = r.result /\ obj' = r.self /\ x' = r.arg
    /\ op' = "BitLinear.forward"
    /\ UNCHANGED <<cfg, trace, loop>>

InitEncoder ==
    /\ obj \in EncoderBlocks /\ x \in EncoderInputs /\ y = NoResult /\ op = "none"
    /\ cfg = NoConfig /\ trace = NoTrace /\ loop = NoLoop

\* module.eval(), on a module that was not called yet
ModuleEval ==
    /\ loop = NoLoop
    /\ obj.kind \in {"EncoderBlock", "VisionTransformer"}
    /\ op \in {"none", "VisionTransformer.__init__"}
    /\ obj.training
    /\ obj' = Module_train(obj, FALSE)
    /\ UNCHANGED <<x, y, op, cfg, trace, loop>>

CallEncoderBlock ==
    /\ obj.kind = "EncoderBlock"
    /\ \E rng \in 0..(IF obj.training THEN MaxRng ELSE 0) :
          \E r \in {EncoderBlock_forward(obj, x, rng)} :
             y' = r.result /\ obj' = r.self /\ x' = r.arg
    /\ op' = "EncoderBlock.forward"
    /\ UNCHANGED <<cfg, trace, loop>>

NextEncoder == CallBitLinear \/ ModuleEval \/ CallEncoderBlock

SpecEncoder == (InitBitLinear \/ InitEncoder) /\ [][NextEncoder]_vars

(* ------------------------ the transformer assembly --------------------- *)

MaxEncoders == 2

\* the keys of the configuration and the values tried for each
ConfigsWith(epochs) ==
    [patch_size : {8, 16}, latent_size : {8, 12}, num_encoders : 0..MaxEncoders,
     num_heads : {4, 8}, num_classes : {1, 10},
     dropout : {[n |-> 1, d |-> 10], [n |-> 1, d |-> 2]}, epochs : epochs]

\* image batches [B, C, H, W], each image by its name, 1 or 2
TokenImages ==
    UNION { { [shape |-> <<b, s[1], s[2], s[3]>>, ids |-> AsSeq(ids)] :
                ids \in [1..b -> {1, 2}] } :
            b \in 1..MaxBatch,
            s \in {<<3, 16, 16>>, <<3, 32, 16>>, <<3, 24, 16>>, <<1, 16, 16>>, <<1, 32, 16>>} }

InitViT ==
    /\ cfg \in ConfigsWith({10}) /\ obj = NoModule /\ x \in TokenImages
    /\ y = NoResult /\ op = "none" /\ trace = NoTrace /\ loop = NoLoop

\* train(): model = VisionTransformer(num_encoders=..., latent_size=...,
\* device=..., num_classes=...), each read from the configuration
ConstructFromConfig ==
    /\ obj = NoModule /\ op = "none" /\ cfg # NoConfig /\ loop = NoLoop
    /\ op' = "VisionTransformer.__init__"
    /\ IF VisionTransformer_accepts(cfg.num_encoders, cfg.latent_size)
       THEN /\ obj' = VisionTransformer_init(cfg.num_encoders, cfg.latent_size,
                                             cfg.num_classes, DefaultDropout)
            /\ y' = Ok("constructed")
       ELSE obj' = obj /\ y' = Err("assert")
    /\ UNCHANGED <<x, cfg, trace, loop>>

\* VisionTransformer(num_encoders, latent_size, device, num_classes, dropout)
\* called with the dropout of the configuration as well
ConstructWithDropout ==
    /\ obj = NoModule /\ op = "none" /\ cfg # NoConfig /\ loop = NoLoop
    /\ op' = "VisionTransformer.__init__"
    /\ IF VisionTransformer_accepts(cfg.num_encoders, cfg.latent_size)
       THEN /\ obj' = VisionTransformer_init(cfg.num_encoders, cfg.latent_size,
                                             cfg.num_classes, cfg.dropout)
            /\ y' = Ok("constructed")
       ELSE obj' = obj /\ y' = Err("assert")
    /\ UNCHANGED <<x, cfg, trace, loop>>

CallVisionTransformer ==
    /\ loop = NoLoop
    /\ obj.kind = "VisionTransformer"
    /\ \E rng \in 0..(IF obj.training THEN MaxRng ELSE 0) :
          \E r \in {VisionTransformer_forward(obj, x, rng)} :
             y' = r.result /\ obj' = r.self /\ x' = r.arg /\ trace' = r.trace
    /\ op' = "VisionTransformer.forward"
    /\ UNCHANGED <<cfg, loop>>

NextViT ==
    ConstructFromConfig \/ ConstructWithDropout \/ ModuleEval \/ CallVisionTransformer

SpecViT == InitViT /\ [][NextViT]_vars

(* ------------------------- every module's forward ---------------------- *)

SpecModules == (InitEmbed \/ InitViT) /\ [][CallInputEmbedding \/ NextViT]_vars

(* ------------------- the quantization functions alone ------------------ *)

InitQuant ==
    /\ obj = NoModule /\ x \in QuantInputs /\ y = NoResult /\ op = "none"
    /\ cfg = NoConfig /\ trace = NoTrace /\ loop = NoLoop

CallActivationQuant ==
    /\ op = "none" /\ obj = NoModule /\ cfg = NoConfig
    /\ y' = Ok(activation_quant(x))
    /\ op' = "activation_quant"
    /\ UNCHANGED <<obj, x, cfg, trace, loop>>

CallWeightQuant ==
    /\ op = "none" /\ obj = NoModule /\ cfg = NoConfig
    /\ y' = Ok(weight_quant(x))
    /\ op' = "weight_quant"
    /\ UNCHANGED <<obj, x, cfg, trace, loop>>

NextQuant == CallActivationQuant \/ CallWeightQuant

SpecQuant == InitQuant /\ [][NextQuant]_vars

(* ------------------------------- train.py ------------------------------ *)

MaxEpochs == 2
MaxTrainBatches == 2

\* what train() reads from the configuration; patch_size, num_heads and
\* dropout are in the file as well
TrainConfigs ==
    { c \in ConfigsWith(0..MaxEpochs) :
        /\ c.patch_size = 16 /\ c.num_heads = 8 /\ c.dropout = DefaultDropout
        /\ c.num_classes = 10 /\ c.num_encoders = 1 }

\* a batch of b CIFAR-10 images, [b, 3, 32, 32]
CifarBatch(b) ==
    [shape |-> <<b, 3, 32, 32>>, ids |-> AsSeq([k \in 1..b |-> ((k - 1) % 2) + 1])]

TestBatch == CifarBatch(2)

NoBatch == [shape |-> <<>>, ids |-> <<>>]

\* train(), lines 97 to 112: the model, the optimizer, best_acc = 0.0
Train_Construct ==
    /\ loop.pc = "construct"
    /\ IF VisionTransformer_accepts(cfg.num_encoders, cfg.latent_size)
       THEN /\ obj' = VisionTransformer_init(cfg.num_encoders, cfg.latent_size,
                                             cfg.num_classes, DefaultDropout)
            /\ y' = Ok("constructed")
            /\ loop' = [loop EXCEPT !.pc = "epoch", !.best_acc = 0]
       ELSE /\ obj' = obj /\ y' = Err("assert")
            /\ loop' = [loop EXCEPT !.pc = "raised"]
    /\ op' = "VisionTransformer.__init__"
    /\ UNCHANGED <<x, cfg, trace>>

\* for epoch in range(epochs): model.train(); or, the epochs over, the
\* closing log lines
Train_Epoch ==
    /\ loop.pc = "epoch"
    /\ IF loop.epoch < cfg.epochs
       THEN /\ obj' = Module_train(obj, TRUE)
            /\ loop' = [loop EXCEPT !.pc = "batch", !.batch_idx = 0]
            /\ op' = "model.train"
       ELSE /\ obj' = obj
            /\ loop' = [loop EXCEPT !.pc = "done", !.logged = Ok(loop.best_acc)]
            /\ op' = "log"
    /\ UNCHANGED <<x, y, cfg, trace>>

\* for batch_idx, (images, labels) in enumerate(progress_bar):
\* optimizer.zero_grad(); or, the batches over, on to the evaluation
Train_Batch ==
    /\ loop.pc = "batch"
    /\ IF loop.batch_idx < loop.train_batches
       THEN /\ \E b \in 1..MaxBatch : x' = CifarBatch(b)
            /\ loop' = [loop EXCEPT !.pc = "forward", !.grads = "zero"]
            /\ op' = "optimizer.zero_grad"
       ELSE /\ x' = x
            /\ loop' = [loop EXCEPT !.pc = "evaluate"]
            /\ op' = "batches done"
    /\ UNCHANGED <<obj, y, cfg, trace>>

\* outputs = model(images)
Train_Forward ==
    /\ loop.pc = "forward"
    /\ \E rng \in 0..MaxRng :
          \E r \in {VisionTransformer_forward(obj, x, rng)} :
              /\ y' = r.result /\ obj' = r.self /\ x' = r.arg /\ trace' = r.trace
              /\ loop' = [loop EXCEPT !.pc = IF r.result.status = "ok"
                                             THEN "backward" ELSE "raised"]
    /\ op' = "VisionTransformer.forward"
    /\ UNCHANGED cfg

\* loss = criterion(outputs, labels); loss.backward()
Train_Backward ==
    /\ loop.pc = "backward"
    /\ loop' = [loop EXCEPT !.pc = "step", !.grads = "computed"]
    /\ op' = "loss.backward"
    /\ UNCHANGED <<obj, x, y, cfg, trace>>

\* optimizer.step()
Train_Step ==
    /\ loop.pc = "step"
    /\ obj' = [obj EXCEPT !.parameters = @ + 1]
    /\ loop' = [loop EXCEPT !.pc = "batch", !.batch_idx = @ + 1]
    /\ op' = "optimizer.step"
    /\ UNCHANGED <<x, y, cfg, trace>>

\* test_loss, test_acc = evaluate(model, test_loader, criterion):
\* model.eval(), the forward pass on the test images, the share of the
\* labels the logits predict, in whole percents
Train_Evaluate ==
    /\ loop.pc = "evaluate"
    /\ x' = TestBatch
    /\ \E r \in {VisionTransformer_forward(Module_train(obj, FALSE), TestBatch, 0)} :
           /\ y' = r.result /\ obj' = r.self /\ trace' = r.trace
           /\ IF r.result.status = "ok"
              THEN \E correct \in 0..TestBatch.shape[1] :
                      loop' = [loop EXCEPT
                                  !.pc = "scheduler",
                                  !.test_accs =
                                      Append(@, (100 * correct) \div TestBatch.shape[1])]
              ELSE loop' = [loop EXCEPT !.pc = "raised"]
    /\ op' = "evaluate"
    /\ UNCHANGED cfg

\* scheduler.step(), the log line of the epoch, and the next epoch
Train_Scheduler ==
    /\ loop.pc = "scheduler"
    /\ loop' = [loop EXCEPT !.pc = "epoch", !.epoch = @ + 1, !.scheduler_steps = @ + 1]
    /\ op' = "scheduler.step"
    /\ UNCHANGED <<obj, x, y, cfg, trace>>

InitTrain ==
    /\ cfg \in TrainConfigs /\ obj = NoModule /\ x = NoBatch
    /\ y = NoResult /\ op = "none" /\ trace = NoTrace
    /\ \E n \in 1..MaxTrainBatches :
          loop = [pc |-> "construct", epoch |-> 0, batch_idx |-> 0, train_batches |-> n,
                  best_acc |-> 0, test_accs |-> <<>>, grads |-> "none",
                  scheduler_steps |-> 0, logged |-> NoResult]

NextTrain ==
    \/ Train_Construct \/ Train_Epoch \/ Train_Batch \/ Train_Forward
    \/ Train_Backward \/ Train_Step \/ Train_Evaluate \/ Train_Scheduler

SpecTrain == InitTrain /\ [][NextTrain]_vars

(* ------------------- every forward pass, and training ------------------ *)

SpecForward ==
    /\ InitEmbed \/ InitBitLinear \/ InitEncoder \/ InitTrain
    /\ [][CallInputEmbedding \/ NextEncoder \/ NextTrain]_vars

(* ------------------------------- claims -------------------------------- *)

\* H and W of an image batch are multiples of the patch size p
Divisible(shape, p) == Len(shape) = 4 /\ shape[3] % p = 0 /\ shape[4] % p = 0

LastOutput == 
    IF Len(trace.encoder_outputs) = 0 THEN trace.embedded.value
    ELSE trace.encoder_outputs[Len(trace.encoder_outputs)]

\* what C4 says of a forward pass that was made
C4_Shapes ==
    /\ y.status = "ok"
    /\ y.value.shape = <<x.shape[1], obj.num_classes>>
    /\ Len(trace.encoder_outputs) = obj.num_encoders
    /\ \A k \in 1..Len(trace.encoder_outputs) :
          trace.encoder_outputs[k].shape =
              (IF k = 1 THEN trace.embedded.value.shape
               ELSE trace.encoder_outputs[k - 1].shape)

\* C4 as written: for every image batch [B, channels, H, W] with H and W
\* multiples of the patch size, VisionTransformer.forward returns logits of
\* shape [B, num_classes], and every Encoder Block output has the shape of
\* its input.
C4_AnyChannels ==
    (op = "VisionTransformer.forward"
        /\ Divisible(x.shape, obj.input_embedding.patch_size)) => C4_Shapes

\* C4 amended: the same, for image batches with as many channels as the
\* patch embedding was built for (3).
C4_LogitsShape ==
    (op = "VisionTransformer.forward"
        /\ Divisible(x.shape, obj.input_embedding.patch_size)
        /\ x.shape[2] = obj.input_embedding.n_channels) => C4_Shapes

\* C4 happens: two images of two patches each went through two blocks
C4_Witness ==
    /\ op = "VisionTransformer.forward"
    /\ y.status = "ok"
    /\ x.shape = <<2, 3, 32, 16>>
    /\ obj.num_encoders = 2
    /\ obj.num_classes = 10
    /\ Len(trace.encoder_outputs) = 2
    /\ trace.encoder_outputs[2].shape = <<2, 3, obj.latent_size>>

\* what C5 says of a forward pass that was made
C5_Shape ==
    LET p == obj.patch_size
    IN  /\ y.status = "ok"
        /\ y.value.shape = <<x.shape[1], (x.shape[3] \div p) * (x.shape[4] \div p) + 1,
                             obj.latent_size>>
        /\ Len(y.value.data) = Numel(y.value.shape)
        /\ Rearrange(x, p).shape[3] = p * p * x.shape[2]

\* C5 as written: for every image batch [B, C, H, W] with H and W multiples
\* of patch_size, InputEmbedding.forward returns a tensor of shape
\* [B, (H/patch_size) * (W/patch_size) + 1, latent_size].
C5_AnyChannels ==
    (op = "InputEmbedding.forward" /\ Divisible(x.shape, obj.patch_size)) => C5_Shape

\* C5 amended: the same, for image batches whose channel count C is the
\* module's n_channels.
C5_EmbeddingShape ==
    (op = "InputEmbedding.forward" /\ Divisible(x.shape, obj.patch_size)
        /\ x.shape[2] = obj.n_channels) => C5_Shape

\* C5 happens: a batch of two 2x2 images cut into four patches of side 1
C5_Witness ==
    /\ op = "InputEmbedding.forward"
    /\ y.status = "ok"
    /\ obj.patch_size = 1
    /\ x.shape = <<2, 2, 2, 2>>
    /\ y.value.shape = <<2, 5, 2>>

IsZeroRow(row) == \A i \in 1..Len(row) : row[i] = Zero

\* C1: weight_quant(w) is ternary: with scale = 1 / max(mean(|w|), 1e-5),
\* every output element is k / scale for some k in {-1, 0, 1}, so the output
\* takes at most 3 distinct values.
C1_WeightQuantTernary ==
    op = "weight_quant" =>
        LET scale == RDiv(One, RMax(Mean(AbsSeq(x.data)), WeightEps))
            out == y.value.data
        IN  /\ y.status = "ok"
            /\ Len(out) = Len(x.data)
            /\ \A i \in 1..Len(out) :
                   \E k \in {-1, 0, 1} : out[i] = RDiv(Int2Rat(k), scale)
            /\ Cardinality({out[i] : i \in 1..Len(out)}) <= 3

\* C1 happens: a weight tensor whose quantized form takes all three levels,
\* one of them only because of the clamp to [-1, 1]
C1_Witness ==
    /\ op = "weight_quant"
    /\ Cardinality({y.value.data[i] : i \in 1..Len(y.value.data)}) = 3
    /\ \E i \in 1..Len(x.data) :
          RLess(Int2Rat(2), RAbs(RMul(x.data[i], WeightScale(x))))

\* C2: activation_quant(x) has the shape of x, and in each row every output
\* element is k / scale for an integer k in [-128, 127], where
\* scale = 127 / max(max|row|, eps) is computed from that row alone.
C2_ActivationQuantGrid ==
    op = "activation_quant" =>
        /\ y.status = "ok"
        /\ y.value.shape = x.shape
        /\ Len(y.value.data) = Len(x.data)
        /\ \A r \in 1..NumRows(x) :
              LET row == RowOf(x, r)
                  scale == RDiv(Int2Rat(127), RMax(MaxAbsSeq(row, Len(row)), FloatEps))
                  out == RowOf(y.value, r)
              IN  \A i \in 1..Len(row) :
                     \E k \in -128..127 : out[i] = RDiv(Int2Rat(k), scale)

\* C2 happens: two rows of different magnitude, each quantized on its own grid
C2_Witness ==
    /\ op = "activation_quant"
    /\ NumRows(x) = 2
    /\ LastDim(x) = 2
    /\ ActScale(RowOf(x, 1)) # ActScale(RowOf(x, 2))
    /\ \A i \in 1..Len(x.data) : y.value.data[i] # Zero
    /\ \E i \in 1..Len(x.data) : y.value.data[i] # x.data[i]

\* C3: an all-zero row comes out of activation_quant all zero, an all-zero
\* weight tensor comes out of weight_quant all zero, and the divisor of
\* either scale is positive: no error, no division by zero.
C3_DegenerateScale ==
    /\ op = "activation_quant" =>
          /\ y.status = "ok"
          /\ \A r \in 1..NumRows(x) :
                /\ RLess(Zero, ActDivisor(RowOf(x, r)))
                /\ IsZeroRow(RowOf(x, r)) => IsZeroRow(RowOf(y.value, r))
    /\ op = "weight_quant" =>
          /\ y.status = "ok"
          /\ RLess(Zero, WeightDivisor(x))
          /\ IsZeroRow(x.data) => IsZeroRow(y.value.data)

\* C3 happens: a tensor with an all-zero row beside a non-zero one went
\* through activation_quant
C3_Witness ==
    /\ op = "activation_quant"
    /\ NumRows(x) = 2
    /\ IsZeroRow(RowOf(x, 1))
    /\ ~IsZeroRow(RowOf(x, 2))
    /\ IsZeroRow(RowOf(y.value, 1))

\* C6: when the image height or width is no multiple of patch_size, or the
\* channel count makes the flattened patch length differ from
\* patch_size^2 * n_channels, InputEmbedding.forward, and with it
\* VisionTransformer.forward, raises an error, returns nothing for any
\* element of the batch, and leaves every parameter as it was.
C6_ShapeMismatchFails ==
    [][ /\ (op' = "InputEmbedding.forward" /\ obj.kind = "InputEmbedding"
             /\ (~Divisible(x.shape, obj.patch_size) \/ x.shape[2] # obj.n_channels))
            => (y'.status = "error" /\ obj' = obj /\ x' = x)
        /\ (op' = "VisionTransformer.forward" /\ obj.kind = "VisionTransformer"
             /\ (~Divisible(x.shape, obj.input_embedding.patch_size)
                  \/ x.shape[2] # obj.input_embedding.n_channels))
            => (y'.status = "error" /\ obj' = obj /\ x' = x
                /\ trace'.encoder_outputs = <<>> /\ trace'.head_input = NoResult) ]_vars

\* C6 happens: a batch of two images whose height the patch size does not
\* divide was refused
C6_Witness ==
    /\ op = "InputEmbedding.forward"
    /\ y.status = "error"
    /\ obj.patch_size = 2
    /\ x.shape[1] = 2
    /\ x.shape[3] = 1
    /\ x.shape[2] = obj.n_channels

\* the tensor [1, 1, L] t as a sequence of L numbers
Vec(t) == t.data

\* position k (from 0) of batch element b (from 0) of a tensor [B, T, L]
At(t, b, k) == SubSeq(t.data, (b * t.shape[2] + k) * t.shape[3] + 1,
                              (b * t.shape[2] + k + 1) * t.shape[3])

VAdd(u, v) == [i \in 1..Len(u) |-> RAdd(u[i], v[i])]

\* C7: in the output of InputEmbedding.forward, position 0 of every batch
\* element is class_token + pos_embedding and positions 1..n are the n patch
\* projections, each plus pos_embedding, in patch order; and
\* VisionTransformer.forward gives the classification head position 0 of
\* the last Encoder Block's output, and nothing else.
C7_ClassTokenFirst ==
    /\ (op = "InputEmbedding.forward" /\ y.status = "ok") =>
          LET proj == BitLinear_forward(obj.bitlinearProjection,
                                        Rearrange(x, obj.patch_size)).result.value
              n == proj.shape[2]
          IN  /\ y.value.shape[2] = n + 1
              /\ \A b \in 0..(x.shape[1] - 1) :
                    /\ At(y.value, b, 0) = AsSeq(VAdd(Vec(obj.class_token),
                                                      Vec(obj.pos_embedding)))
                    /\ \A k \in 1..n :
                          At(y.value, b, k) = AsSeq(VAdd(At(proj, b, k - 1),
                                                        Vec(obj.pos_embedding)))
    /\ (op = "VisionTransformer.forward" /\ y.status = "ok") =>
          /\ \A b \in 1..x.shape[1] :
                /\ trace.embedded.value.tok[b][1] = <<"class_token">>
                /\ trace.head_input.value.tok[b] = LastOutput.tok[b][1]
                /\ y.value.tok[b] = <<"head", LastOutput.tok[b][1]>>
          /\ Len(trace.head_input.value.tok) = x.shape[1]

\* C7 happens: the logits of a batch of two images of two patches each,
\* through one block
C7_Witness ==
    /\ op = "VisionTransformer.forward"
    /\ y.status = "ok"
    /\ x.shape = <<2, 3, 32, 16>>
    /\ x.ids[1] # x.ids[2]
    /\ obj.num_encoders = 1
    /\ trace.head_input.value.tok[2] = trace.encoder_outputs[1].tok[2][1]

\* C8: the patch_size, num_heads and dropout given in the configuration are
\* the ones the constructed model uses: in its patch embedding, in the
\* attention of every Encoder Block, and at the three dropout points of
\* every Encoder Block; as latent_size, num_encoders and num_classes are.
C8_ConfigTakesEffect ==
    obj.kind = "VisionTransformer" =>
        /\ obj.latent_size = cfg.latent_size
        /\ obj.num_encoders = cfg.num_encoders
        /\ Len(obj.encoder_stack) = cfg.num_encoders
        /\ obj.mlp_head[4].out_features = cfg.num_classes
        /\ obj.input_embedding.patch_size = cfg.patch_size
        /\ \A k \in 1..Len(obj.encoder_stack) :
              LET blk == obj.encoder_stack[k]
              IN  /\ blk.multihead.num_heads = cfg.num_heads
                  /\ blk.multihead.dropout = cfg.dropout
                  /\ blk.enc_MLP[3].p = cfg.dropout
                  /\ blk.enc_MLP[5].p = cfg.dropout

\* nn.Module.parameters(): the values of the parameters of a module
BitLinear_parameters(m) == <<m.weight, m.bias>>

Parameters(m) ==
    CASE m.kind = "BitLinear" -> BitLinear_parameters(m)
      [] m.kind = "InputEmbedding" ->
            <<BitLinear_parameters(m.bitlinearProjection), m.class_token, m.pos_embedding>>
      [] m.kind = "EncoderBlock" ->
            <<m.norm.weight, m.norm.bias,
              m.multihead.in_proj_weight, m.multihead.in_proj_bias,
              m.multihead.out_proj_weight, m.multihead.out_proj_bias,
              BitLinear_parameters(m.enc_MLP[1]), BitLinear_parameters(m.enc_MLP[4])>>
      [] m.kind = "VisionTransformer" -> <<m.parameters>>
      [] OTHER -> <<>>

ForwardOps ==
    {"BitLinear.forward", "InputEmbedding.forward", "EncoderBlock.forward",
     "VisionTransformer.forward"}

\* C9: a forward call of a BitLinear, an InputEmbedding, an EncoderBlock or
\* a VisionTransformer, in training or in evaluation mode, leaves the module
\* with all its parameters and the caller's input tensor as they were; and
\* in the training loop the parameters change in the optimizer step that
\* follows backward, and in no other step.
C9_ForwardFrame ==
    [][ /\ (op' \in ForwardOps) => (obj' = obj /\ x' = x)
        /\ (op' = "evaluate") => (Parameters(obj') = Parameters(obj))
        /\ (obj.kind = "VisionTransformer" /\ Parameters(obj') # Parameters(obj))
              => (loop.pc = "step" /\ loop.grads = "computed"
                  /\ op = "loss.backward" /\ op' = "optimizer.step") ]_vars

\* C9 happens: two epochs of two batches each were trained and evaluated,
\* and the parameters are those of the fourth optimizer step
C9_Witness ==
    /\ loop.pc = "done"
    /\ Len(loop.test_accs) = 2
    /\ obj.kind = "VisionTransformer"
    /\ Parameters(obj) = <<4>>
    /\ y.status = "ok"

\* C10: in evaluation mode the output of EncoderBlock.forward at batch
\* index b is a function of the input at batch index b alone, and so are
\* the logits of VisionTransformer.forward: an input that differs from x at
\* other batch indices only gives the same output at b.
C10_BatchIndependence ==
    /\ (op = "EncoderBlock.forward" /\ ~obj.training /\ y.status = "ok") =>
          \A x2 \in EncoderInputs :
              x2.shape = x.shape =>
                  \A b \in 1..x.shape[1] :
                      BatchSlice(x2, b) = BatchSlice(x, b) =>
                          BatchSlice(EncoderBlock_forward(obj, x2, 0).result.value, b)
                              = BatchSlice(y.value, b)
    /\ (op = "VisionTransformer.forward" /\ ~obj.training /\ y.status = "ok") =>
          \A x2 \in TokenImages :
              x2.shape = x.shape =>
                  \A b \in 1..x.shape[1] :
                      x2.ids[b] = x.ids[b] =>
                          VisionTransformer_forward(obj, x2, 0).result.value.tok[b]
                              = y.value.tok[b]

\* the parameters C11 gives an Encoder Block: those of its attention module
\* and of its two BitLinear layers
AttentionAndLinearParameters(m) ==
    <<m.multihead.in_proj_weight, m.multihead.in_proj_bias,
      m.multihead.out_proj_weight, m.multihead.out_proj_bias,
      BitLinear_parameters(m.enc_MLP[1]), BitLinear_parameters(m.enc_MLP[4])>>

\* the block with a normalization that has no affine part: weight 1, bias 0
WithPlainNorm(m) ==
    [m EXCEPT !.norm.weight = Tensor(<<m.latent_size>>, [i \in 1..m.latent_size |-> One]),
              !.norm.bias = Tensor(<<m.latent_size>>, [i \in 1..m.latent_size |-> Zero])]

\* C11: the normalization of an Encoder Block has no learnable affine
\* parameters: the parameters of the block are exactly those of its attention
\* module and of its two BitLinear layers, and what the block computes in
\* evaluation mode is what it computes with a normalization without weight
\* and bias.
C11_NormWithoutParameters ==
    obj.kind = "EncoderBlock" =>
        /\ Parameters(obj) = AttentionAndLinearParameters(obj)
        /\ (op = "EncoderBlock.forward" /\ ~obj.training /\ y.status = "ok") =>
               y = EncoderBlock_forward(WithPlainNorm(obj), x, 0).result


\* the greatest element of a non-empty sequence of numbers
MaxOf(s) == CHOOSE m \in {s[k] : k \in 1..Len(s)} : \A k \in 1..Len(s) : s[k] <= m

\* C12: when train() completes after one epoch or more, every epoch was
\* evaluated once and followed by one scheduler step, and the value logged
\* as "Best test accuracy" is the greatest test accuracy evaluate() returned.
C12_BestAccuracyLogged ==
    (loop.pc = "done" /\ cfg.epochs > 0) =>
        /\ Len(loop.test_accs) = cfg.epochs
        /\ loop.scheduler_steps = cfg.epochs
        /\ loop.logged = Ok(MaxOf(loop.test_accs))

====
